---- MODULE Spec2Model ----
(***************************************************************************)
(* A model of the taxonomic abundance core of metaphlan2.py: the TaxTree   *)
(* built from the marker database, the read counts recorded on its clades, *)
(* TaxClade.compute_abundance with its seven statistics, the normalised    *)
(* relative abundances and the ordering of the output table.               *)
(*                                                                         *)
(* Representation.  A clade name "s__X" is the pair <<"s", "X">> (rank     *)
(* letter, text after the "__"); a synthetic name "s__X_unclassified" is   *)
(* the triple <<"s", "X", "_unclassified">>.  A TaxClade object is the     *)
(* number it was created as (the root is 1), and every field of TaxClade   *)
(* is a sequence indexed by these numbers.  A full name "a|b|c" is the     *)
(* sequence of its names.  Floats are exact rationals <<numerator,         *)
(* denominator>> in lowest terms.  A Python dict is the sequence of its    *)
(* <<key, value>> items in insertion order.                                *)
(***************************************************************************)
EXTENDS Integers, Sequences, FiniteSets, TLC

\* ------------------------------------------------------------------------
\* Bounds of the model
\* ------------------------------------------------------------------------

\* The reads of the sample that map to a marker of the database.
MaxReads == 4

\* The largest read count a direct call of add_reads passes.
MaxCount == 1

\* The add_reads calls made once an abundance has been computed.
MaxLate == 1

\* The lines of a mapping file.
MaxLines == 3

\* The calls of relative_abundances on one tree.
MaxCalls == 2

\* ------------------------------------------------------------------------
\* Sequences and dicts
\* ------------------------------------------------------------------------

\* The list with the elements f[1], f[2], ...
List(f) == f \o <<>>

Range(s) == {s[i] : i \in DOMAIN s}

RECURSIVE SeqOfSet(_)
SeqOfSet(S) == IF S = {} THEN <<>>
               ELSE LET x == CHOOSE y \in S : TRUE
                    IN <<x>> \o SeqOfSet(S \ {x})

DictKeys(d) == {d[i][1] : i \in DOMAIN d}

DictValues(d) == List([i \in DOMAIN d |-> d[i][2]])

DictHas(d, k) == \E i \in DOMAIN d : d[i][1] = k

DictGet(d, k) == d[CHOOSE i \in DOMAIN d : d[i][1] = k][2]

\* d[k] = v: an existing key keeps its place, a new key goes last.
DictSet(d, k, v) ==
    IF DictHas(d, k)
    THEN List([i \in DOMAIN d |-> IF d[i][1] = k THEN <<k, v>> ELSE d[i]])
    ELSE Append(d, <<k, v>>)

\* ------------------------------------------------------------------------
\* Exact rationals for Python floats
\* ------------------------------------------------------------------------

Abs(x) == IF x < 0 THEN -x ELSE x

RECURSIVE GCD(_, _)
GCD(a, b) == IF b = 0 THEN a ELSE GCD(b, a % b)

RNorm(n, d) ==
    LET g == GCD(Abs(n), Abs(d))
        s == IF d < 0 THEN -1 ELSE 1
    IN  <<(s * n) \div g, (s * d) \div g>>

RInt(n) == <<n, 1>>
RZero  == <<0, 1>>
ROne   == <<1, 1>>

RAdd(a, b) == RNorm(a[1] * b[2] + b[1] * a[2], a[2] * b[2])
RSub(a, b) == RNorm(a[1] * b[2] - b[1] * a[2], a[2] * b[2])
RMul(a, b) == RNorm(a[1] * b[1], a[2] * b[2])
\* a / b for b # 0
RDiv(a, b) == RNorm(a[1] * b[2], a[2] * b[1])
RLt(a, b)  == a[1] * b[2] < b[1] * a[2]
RLe(a, b)  == a[1] * b[2] <= b[1] * a[2]

RECURSIVE RSum(_)
RSum(s) == IF s = <<>> THEN RZero ELSE RAdd(s[1], RSum(Tail(s)))

RECURSIVE ISum(_)
ISum(s) == IF s = <<>> THEN 0 ELSE s[1] + ISum(Tail(s))

\* ------------------------------------------------------------------------
\* Names
\* ------------------------------------------------------------------------

tax_units == <<"k", "p", "c", "o", "f", "g", "s", "t">>

markers_to_exclude == {"NC_001782.1"}

\* tax_units.index( letter )
TaxIndex(letter) == CHOOSE i \in DOMAIN tax_units : tax_units[i] = letter

\* The texts (after the "__") of the model's names that contain "_sp".
SpTexts == {"W_sp"}

\* "_sp" in name
HasSp(nm) == nm[2] \in SpTexts

\* The kingdom names "k__Viruses", "k__Eukaryotes", "k__Archaea" and
\* "k__Bacteria" the code looks for, by the flag that selects each.
KingdomOfFlag(flag) ==
    CASE flag = "ignore_viruses"    -> <<"k", "Viruses">>
      [] flag = "ignore_eukaryotes" -> <<"k", "Eukaryotes">>
      [] flag = "ignore_archaea"    -> <<"k", "Archaea">>
      [] flag = "ignore_bacteria"   -> <<"k", "Bacteria">>

\* full_name.startswith( kingdom ): no name of the model extends another.
StartsWithKingdom(full_name, kingdom) ==
    Len(full_name) >= 1 /\ full_name[1] = kingdom

\* "k__Viruses" in full_name
ContainsViruses(full_name) ==
    \E i \in DOMAIN full_name : full_name[i] = <<"k", "Viruses">>

\* ------------------------------------------------------------------------
\* The marker databases (mpa_pkl) the model is run on
\* ------------------------------------------------------------------------

Chain(k, s, t) ==
    << <<"k", k>>, <<"p", "P" \o s>>, <<"c", "C" \o s>>, <<"o", "O" \o s>>,
       <<"f", "F" \o s>>, <<"g", "G" \o s>>, <<"s", s>>, <<"t", t>> >>

Marker(id, len, clade, ext) ==
    [id |-> id, len |-> len, clade |-> clade, ext |-> ext]

\* One species with two strains, one of them without markers; a phylum
\* without descendants; a marker of the fixed exclusion set.
DB_A ==
    [taxonomy |-> << Chain("Bacteria", "X", "1"), Chain("Bacteria", "X", "2"),
                     << <<"k", "Bacteria">>, <<"p", "P2">> >> >>,
     markers  |-> << Marker("a1", 1, <<"t", "1">>, <<>>),
                     Marker("a2", 2, <<"t", "1">>, <<>>),
                     Marker("NC_001782.1", 1, <<"p", "P2">>, <<>>),
                     Marker("a3", 2, <<"g", "GX">>, <<>>),
                     Marker("a4", 1, <<"p", "P2">>, <<>>) >>]

\* Two kingdoms; a viral strain whose marker is shared with a bacterial
\* species of one strain that has four markers.
DB_B ==
    [taxonomy |-> << Chain("Bacteria", "Y", "4"), Chain("Viruses", "V", "5") >>,
     markers  |-> << Marker("b1", 1, <<"t", "5">>, <<"4">>),
                     Marker("b2", 1, <<"s", "Y">>, <<>>),
                     Marker("b3", 1, <<"t", "4">>, <<>>),
                     Marker("b4", 2, <<"t", "4">>, <<>>),
                     Marker("b5", 2, <<"f", "FY">>, <<>>) >>]

\* A species of two strains whose marker is shared with the only strain of
\* an unspecified ("_sp") archaeal species.
DB_C ==
    [taxonomy |-> << Chain("Bacteria", "X", "1"), Chain("Bacteria", "X", "2"),
                     Chain("Archaea", "W_sp", "6") >>,
     markers  |-> << Marker("c1", 2, <<"s", "X">>, <<"6">>),
                     Marker("c2", 1, <<"t", "6">>, <<>>),
                     Marker("c3", 1, <<"t", "1">>, <<>>) >>]

\* A marker whose owning clade is not in the taxonomy.
DB_NoClade ==
    [taxonomy |-> << << <<"k", "Bacteria">>, <<"p", "P2">> >> >>,
     markers  |-> << Marker("f1", 1, <<"p", "P2">>, <<>>),
                     Marker("f2", 1, <<"s", "Missing">>, <<>>) >>]

\* A marker whose extended set names a taxon that is not in the taxonomy.
DB_NoExt ==
    [taxonomy |-> << Chain("Bacteria", "X", "1") >>,
     markers  |-> << Marker("e1", 1, <<"t", "1">>, <<"9">>),
                     Marker("e2", 2, <<"s", "X">>, <<>>) >>]

\* A kingdom with markers of its own and two phyla without descendants.
DB_D ==
    [taxonomy |-> << << <<"k", "Bacteria">>, <<"p", "P1">> >>,
                     << <<"k", "Bacteria">>, <<"p", "P2">> >> >>,
     markers  |-> << Marker("d1", 3, <<"k", "Bacteria">>, <<>>),
                     Marker("d2", 1, <<"p", "P1">>, <<>>),
                     Marker("d3", 2, <<"p", "P2">>, <<>>) >>]

\* One kingdom, one species with the two strains X and Y, and one marker
\* of length 1000 on each strain.
DB_E ==
    [taxonomy |-> << Chain("A", "S", "X"), Chain("A", "S", "Y") >>,
     markers  |-> << Marker("m1", 1000, <<"t", "X">>, <<>>),
                     Marker("m2", 1000, <<"t", "Y">>, <<>>) >>]

\* A species of two strains with twelve markers, eleven of them shared
\* with the only strain of a second species, which has two markers, one of
\* them shared with the only strain of a third species.
DB_R ==
    [taxonomy |-> << Chain("Bacteria", "X", "1"), Chain("Bacteria", "X", "2"),
                     Chain("Bacteria", "Y", "4"), Chain("Bacteria", "Z", "7") >>,
     markers  |-> << Marker("r1", 1, <<"s", "X">>, <<"4">>),
                     Marker("r2", 1, <<"s", "X">>, <<"4">>),
                     Marker("r3", 1, <<"s", "X">>, <<"4">>),
                     Marker("r4", 1, <<"s", "X">>, <<"4">>),
                     Marker("r5", 1, <<"s", "X">>, <<"4">>),
                     Marker("r6", 1, <<"s", "X">>, <<"4">>),
                     Marker("r7", 1, <<"s", "X">>, <<"4">>),
                     Marker("r8", 1, <<"s", "X">>, <<"4">>),
                     Marker("r9", 1, <<"s", "X">>, <<"4">>),
                     Marker("r10", 1, <<"s", "X">>, <<"4">>),
                     Marker("r11", 1, <<"s", "X">>, <<"4">>),
                     Marker("r12", 2, <<"s", "X">>, <<>>),
                     Marker("y1", 1, <<"t", "4">>, <<>>),
                     Marker("y2", 1, <<"t", "4">>, <<"7">>),
                     Marker("z1", 1, <<"t", "7">>, <<>>) >>]

DatabaseNames == {"A", "B", "C", "D", "NoClade", "NoExt"}

\* pickle.loads( ... ) of the database file of that name
Database(name) ==
    CASE name = "A" -> DB_A
      [] name = "B" -> DB_B
      [] name = "C" -> DB_C
      [] name = "D" -> DB_D
      [] name = "NoClade" -> DB_NoClade
      [] name = "NoExt" -> DB_NoExt
      [] name = "E" -> DB_E
      [] name = "R" -> DB_R

\* ------------------------------------------------------------------------
\* State
\* ------------------------------------------------------------------------

VARIABLES
    pc,              \* where the run is: "start", "built", "failed", "crashed", "done"
    mpa_pkl,         \* the marker database the run loads (its name)
    pars,            \* stat, stat_q, avoid_disqm, min_cu_len
    name,            \* TaxClade.name
    children,        \* TaxClade.children: dict name -> clade
    father,          \* TaxClade.father
    all_clades,      \* TaxTree.all_clades: dict name -> clade
    taxa2clades,     \* TaxTree.taxa2clades: taxon id -> clade
    markers2lens,    \* TaxTree.markers2lens
    markers2clades,  \* TaxTree.markers2clades: marker -> owning clade name
    markers2exts,    \* TaxTree.markers2exts
    markers2nreads,  \* TaxClade.markers2nreads: dict marker -> count
    abundance,       \* TaxClade.abundance (None until computed)
    uncl_abundance,  \* TaxClade.uncl_abundance
    subcl_uncl,      \* TaxClade.subcl_uncl
    locals,          \* the locals of each clade's computation, as it ended
    assigned,        \* per clade, the values each computation assigned to abundance
    ret,             \* the last call and what it returned
    late,            \* add_reads calls made after an abundance was computed
    inp,             \* the lines of the mapping file pars['inp']
    markers2reads,   \* what map2bbh returned: dict marker -> set of reads
    position,        \* the items of markers2reads the read loop has been through
    map_out,         \* the lines of the reads map
    calls            \* the calls of relative_abundances made so far

treeVars == <<name, children, father, all_clades, taxa2clades,
              markers2lens, markers2clades, markers2exts>>
abVars   == <<abundance, uncl_abundance, subcl_uncl, locals, assigned>>
mapVars  == <<inp, markers2reads, position, map_out>>
vars     == <<pc, mpa_pkl, pars, treeVars, markers2nreads, abVars, ret, late,
              mapVars, calls>>

None  == <<>>
Empty == <<>>

\* self.root = TaxClade( "root" ): the first clade made
root == 1
RootName == <<"root">>

\* ------------------------------------------------------------------------
\* TaxClade: the tree
\* ------------------------------------------------------------------------

\* The tree of the current state.
Tree == [name |-> name, children |-> children, father |-> father,
         all_clades |-> all_clades, taxa2clades |-> taxa2clades]

\* The clades of the tree, the root excluded.
Clades == DOMAIN name \ {root}

\* list(cl.children.values())
ChildClades(T, cl) == List([i \in DOMAIN T.children[cl] |-> T.children[cl][i][2]])

\* cl.get_full_name(): the names from the root down, the root's dropped.
RECURSIVE get_full_name(_, _)
get_full_name(T, cl) ==
    IF cl = root THEN <<>>
    ELSE Append(get_full_name(T, T.father[cl]), T.name[cl])

RECURSIVE get_terminals(_, _)
get_terminals(T, cl) ==
    IF T.children[cl] = <<>> THEN {cl}
    ELSE UNION {get_terminals(T, c) : c \in Range(ChildClades(T, cl))}

\* while len(cl.children) == 1: cl = list(cl.children.values())[0]
RECURSIVE Collapse(_, _)
Collapse(T, cl) ==
    IF Len(T.children[cl]) = 1 THEN Collapse(T, T.children[cl][1][2]) ELSE cl

\* ------------------------------------------------------------------------
\* TaxTree.__init__
\* ------------------------------------------------------------------------

EmptyTree ==
    [name        |-> <<RootName>>,
     children    |-> << <<>> >>,
     father      |-> <<None>>,
     all_clades  |-> Empty,
     taxa2clades |-> Empty]

\* father.add_child( clade_lev ); self.all_clades[clade_lev] = the new clade
add_child(T, fa, clade_lev) ==
    LET new_clade == Len(T.name) + 1
    IN  [T EXCEPT
           !.name       = Append(@, clade_lev),
           !.children   = Append([@ EXCEPT ![fa] = Append(@, <<clade_lev, new_clade>>)],
                                 <<>>),
           !.father     = Append(@, fa),
           !.all_clades = DictSet(@, clade_lev, new_clade)]

\* if clade_lev[0] == "t": self.taxa2clades[clade_lev[3:]] = father
RegisterTaxon(T, fa, clade_lev) ==
    IF clade_lev[1] = "t"
    THEN [T EXCEPT !.taxa2clades = (clade_lev[2] :> fa) @@ T.taxa2clades]
    ELSE T

\* for clade_lev in clade, from the i-th on, below clade fa
RECURSIVE AddLineage(_, _, _, _)
AddLineage(T, clade, i, fa) ==
    IF i > Len(clade) THEN T
    ELSE IF DictHas(T.children[fa], clade[i])
    THEN AddLineage(RegisterTaxon(T, fa, clade[i]),
                    clade, i + 1, DictGet(T.children[fa], clade[i]))
    ELSE AddLineage(RegisterTaxon(add_child(T, fa, clade[i]), fa, clade[i]),
                    clade, i + 1, Len(T.name) + 1)

RECURSIVE BuildTaxonomy(_, _, _)
BuildTaxonomy(T, taxonomy, i) ==
    IF i > Len(taxonomy) THEN T
    ELSE BuildTaxonomy(AddLineage(T, taxonomy[i], 1, root), taxonomy, i + 1)

\* ------------------------------------------------------------------------
\* TaxTree.add_reads
\* ------------------------------------------------------------------------

Flags == {"ignore_viruses", "ignore_eukaryotes", "ignore_bacteria", "ignore_archaea"}

\* The early returns of add_reads: the owning clade is under a kingdom
\* whose flag is set.
Ignored(cn, flags) ==
    \E f \in flags : StartsWithKingdom(cn, KingdomOfFlag(f))

\* The owning clade itself: no descent down the single-child links.
OwningClade(T, cl) == cl

\* The clade add_reads writes to.
TargetClade(T, cl) == Collapse(T, cl)

\* cl.markers2nreads[marker] += n
AddCount(d, marker, n) ==
    DictSet(d, marker, n + (IF DictHas(d, marker) THEN DictGet(d, marker) ELSE 0))

\* cl.markers2nreads[marker] = n
SetCount(d, marker, n) == DictSet(d, marker, n)

\* add_reads( marker, n, flags ) on tree T with owners m2c and counts m2n:
\* [keyerror, m2n, ret].
add_reads(T, m2c, m2n, marker, n, flags) ==
    IF marker \notin DOMAIN m2c \/ ~DictHas(T.all_clades, m2c[marker])
    THEN [keyerror |-> TRUE, m2n |-> m2n, ret |-> None]
    ELSE LET cl == DictGet(T.all_clades, m2c[marker])
             to == TargetClade(T, cl)
         IN  IF Ignored(get_full_name(T, cl), flags)
             THEN [keyerror |-> FALSE, m2n |-> m2n, ret |-> <<>>]
             ELSE [keyerror |-> FALSE,
                   m2n |-> [m2n EXCEPT ![to] = SetCount(@, marker, n)],
                   ret |-> get_full_name(T, to)]

\* The marker loop of TaxTree.__init__, from marker i on.
RECURSIVE LoadMarkers(_, _, _, _)
LoadMarkers(T, M, markers, i) ==
    IF i > Len(markers) \/ M.keyerror THEN M
    ELSE LET p == markers[i]
             k == p.id
         IN  IF k \in markers_to_exclude
             THEN LoadMarkers(T, M, markers, i + 1)
             ELSE LET m2c == (k :> p.clade) @@ M.markers2clades
                      r   == add_reads(T, m2c, M.markers2nreads, k, 0, {})
                  IN  LoadMarkers(T,
                        [keyerror       |-> r.keyerror,
                         markers2lens   |-> (k :> p.len) @@ M.markers2lens,
                         markers2clades |-> m2c,
                         markers2nreads |-> r.m2n,
                         markers2exts   |-> IF r.keyerror THEN M.markers2exts
                                            ELSE (k :> p.ext) @@ M.markers2exts],
                        markers, i + 1)

\* TaxTree( mpa_pkl ): the tree and the tables, or keyerror.
TaxTree(mpa) ==
    LET T == BuildTaxonomy(EmptyTree, mpa.taxonomy, 1)
        M == LoadMarkers(T,
               [keyerror |-> FALSE, markers2lens |-> Empty, markers2clades |-> Empty,
                markers2nreads |-> [cl \in DOMAIN T.name |-> <<>>],
                markers2exts |-> Empty],
               mpa.markers, 1)
    IN  [T |-> T, M |-> M]

\* ------------------------------------------------------------------------
\* map2bbh
\* ------------------------------------------------------------------------

\* A line of the mapping file is <<r, c>>: the read and the marker of a
\* bowtie2out line, the fields o[0] and o[2] of a SAM line.

\* o[0][0] == '@'
IsHeader(r) == r \in {"@SQ"}

\* o[2][-1] == '*'
Unaligned(c) == c = "*"

\* reads2markers.setdefault( r, c ): the first marker of a read is kept
KeepMarker(reads2markers, r, c) ==
    IF DictHas(reads2markers, r) THEN reads2markers ELSE DictSet(reads2markers, r, c)

\* reads2markers[r] = c
SetMarker(reads2markers, r, c) == DictSet(reads2markers, r, c)

\* The loop over the lines of the file, from line i on.
RECURSIVE ReadLines(_, _, _, _)
ReadLines(lines, i, input_type, reads2markers) ==
    IF i > Len(lines) THEN reads2markers
    ELSE ReadLines(lines, i + 1, input_type,
           IF \/ input_type = "bowtie2out"
              \/ /\ input_type = "sam"
                 /\ ~IsHeader(lines[i][1])
                 /\ ~Unaligned(lines[i][2])
           THEN SetMarker(reads2markers, lines[i][1], lines[i][2])
           ELSE reads2markers)

\* markers2reads[m].add( r ), for the items of reads2markers from i on
RECURSIVE GroupReads(_, _, _)
GroupReads(reads2markers, i, m2r) ==
    IF i > Len(reads2markers) THEN m2r
    ELSE GroupReads(reads2markers, i + 1,
           DictSet(m2r, reads2markers[i][2],
                   (IF DictHas(m2r, reads2markers[i][2])
                    THEN DictGet(m2r, reads2markers[i][2]) ELSE {})
                   \cup {reads2markers[i][1]}))

\* map2bbh( blast_outfmt6, input_type ): the dict marker -> set of reads
map2bbh(lines, input_type) ==
    GroupReads(ReadLines(lines, 1, input_type, Empty), 1, Empty)

\* ------------------------------------------------------------------------
\* Parameters
\* ------------------------------------------------------------------------

stat_choices == {"avg_g", "avg_l", "tavg_g", "tavg_l", "wavg_g", "wavg_l", "med"}

\* --stat_q: 0.4, which trims the clades of three markers or more and leaves
\* the smaller ones untrimmed
Quantiles == {<<2, 5>>}

\* --min_cu_len, in the unit of the model's marker lengths: the markers are
\* of length 1, 2 and 3, so that clades fall on both sides of it
MinCuLens == {2}

AllPars ==
    [stat : stat_choices, quantile : Quantiles,
     avoid_disqm : BOOLEAN, min_cu_len : MinCuLens]

\* The flag settings add_reads is called with.
FlagSets == {{}, {"ignore_viruses"}, {"ignore_archaea", "ignore_eukaryotes"},
             {"ignore_bacteria"}}

\* The parameters of the runs that write the reads map: the ignore_
\* options and the type of the mapping file as well.
MapPars ==
    [stat : {"avg_g"}, quantile : Quantiles, avoid_disqm : {FALSE},
     min_cu_len : MinCuLens, ignore : FlagSets, input_type : {"bowtie2out", "sam"}]

\* ------------------------------------------------------------------------
\* TaxClade.compute_abundance: the markers of one clade
\* ------------------------------------------------------------------------

\* sorted( s, key ): stable, ascending.  The pairs are <<key, item>>.
RECURSIVE InsertSorted(_, _)
InsertSorted(s, x) ==
    IF s = <<>> THEN <<x>>
    ELSE IF RLt(x[1], s[1][1]) THEN <<x>> \o s
    ELSE <<s[1]>> \o InsertSorted(Tail(s), x)

RECURSIVE SortPairs(_)
SortPairs(s) ==
    IF s = <<>> THEN <<>>
    ELSE InsertSorted(SortPairs(SubSeq(s, 1, Len(s) - 1)), s[Len(s)])

\* keys[i] is the key of s[i]
Sorted(s, keys) ==
    LET sp == SortPairs(List([i \in DOMAIN s |-> <<keys[i], s[i]>>]))
    IN  List([i \in DOMAIN s |-> sp[i][2]])

\* An entry (self.markers2lens[m], n) of rat_nreads or removed, with its marker.
Entry(m, n) == [m |-> m, r |-> markers2lens[m], n |-> n]

\* key = lambda x: x[1]
ByCount(e) == RInt(e.n)

\* sorted( s, key = lambda x: x[1] )
SortedByCount(s) == Sorted(s, List([i \in DOMAIN s |-> ByCount(s[i])]))

\* float(n)/r
Ratio(e) == RNorm(e.n, e.r)

\* key = lambda x: x[0] of (float(n)/r, r, n)
ByRatio(e) == Ratio(e)

\* sorted( s, key = lambda x: x[0] ) and sorted( ratios )
SortedByRatio(s) == Sorted(s, List([i \in DOMAIN s |-> ByRatio(s[i])]))

\* The mpa_pkl marker's related clade, collapsed: where its counts are read.
RelatedClade(e) == Collapse(Tree, taxa2clades[e])

\* float(nonzeros) / len(m2nr) > 0.5
OverHalf(nonzeros, total) == total > 0 /\ nonzeros * 2 > total

\* float(nonzeros) / len(m2nr) > 0.33 on a non-empty m2nr
OverThird(nonzeros, total) == total > 0 /\ nonzeros * 100 > 33 * total

\* One related taxon e flags the marker.
QuasiHit(e) ==
    LET m2nr     == markers2nreads[RelatedClade(e)]
        nonzeros == Cardinality({i \in DOMAIN m2nr : m2nr[i][2] > 0})
    IN  OverThird(nonzeros, Len(m2nr))

\* for e in self.markers2exts[m]: "hit" (misidentified), "miss" or
\* "keyerror" (self.taxa2clades[e] has no e), from the i-th on.
RECURSIVE ScanExts(_, _)
ScanExts(exts, i) ==
    IF i > Len(exts) THEN "miss"
    ELSE IF exts[i] \notin DOMAIN taxa2clades THEN "keyerror"
    ELSE IF QuasiHit(exts[i]) THEN "hit"
    ELSE ScanExts(exts, i + 1)

\* The verdict on marker m.
Misidentified(m) ==
    IF pars.avoid_disqm THEN "miss" ELSE ScanExts(markers2exts[m], 1)

\* The filtering loop over self.markers2nreads.items(), from item i on:
\* [rat_nreads, removed, keyerror].
RECURSIVE FilterMarkers(_, _, _)
FilterMarkers(items, i, acc) ==
    IF i > Len(items) \/ acc.keyerror THEN acc
    ELSE LET e == Entry(items[i][1], items[i][2])
             v == Misidentified(items[i][1])
         IN  FilterMarkers(items, i + 1,
               CASE v = "keyerror" -> [acc EXCEPT !.keyerror = TRUE]
                 [] v = "hit"      -> [acc EXCEPT !.removed = Append(@, e)]
                 [] v = "miss"     -> [acc EXCEPT !.rat_nreads = Append(@, e)])

\* n_ripr
n_ripr_default == 10

\* n_ripr = 10 for every clade
NRiprAlways(cl) == n_ripr_default

\* n_ripr after the two tests: the terminals, the viral kingdom
NRipr(cl) ==
    IF ContainsViruses(get_full_name(Tree, cl)) THEN 0
    ELSE IF Cardinality(get_terminals(Tree, cl)) < 2 THEN 0
    ELSE n_ripr_default

\* removed[:k] for k >= 0
Prefix(s, k) == SubSeq(s, 1, IF k < Len(s) THEN k ELSE Len(s))

\* The removed markers put back: rat_nreads += removed[:n_ripr-int(n_rat_nreads)]
Restore(cl, rat_nreads, removed) ==
    IF ~pars.avoid_disqm /\ Len(removed) > 0
       /\ Len(rat_nreads) < NRipr(cl)
       /\ Len(rat_nreads) + Len(removed) > Len(rat_nreads)
    THEN rat_nreads \o Prefix(removed, NRipr(cl) - Len(rat_nreads))
    ELSE rat_nreads

\* int( self.quantile * len(rat_nreads) )
Quant(quantile, n) == (quantile[1] * n) \div quantile[2]

\* s[ql:qr]: the whole of s when quant is 0
Band(s, quant) == SubSeq(s, quant + 1, Len(s) - quant)

\* np.mean of a non-empty list
Mean(s) == RDiv(RSum(s), RInt(Len(s)))

\* np.median of a non-empty sorted list
Median(s) ==
    LET k == Len(s)
    IN  IF k % 2 = 1 THEN s[(k + 1) \div 2]
        ELSE RDiv(RAdd(s[k \div 2], s[k \div 2 + 1]), RInt(2))

Lens(s)   == List([i \in DOMAIN s |-> s[i].r])
Counts(s) == List([i \in DOMAIN s |-> s[i].n])
Ratios(s) == List([i \in DOMAIN s |-> Ratio(s[i])])
Repeat(x, k) == List([i \in 1..k |-> x])

\* wnreads = [vmin]*qn + list(v[ql:qr]) + [vmax]*qn with vmin, vmax = v[ql], v[qr]
Winsorized(v, quant) ==
    LET vmin == v[quant + 1]
        vmax == v[Len(v) - quant + 1]
    IN  Repeat(vmin, quant) \o Band(v, quant) \o Repeat(vmax, quant)

\* loc_ab for rat >= 0, from the sorted rat_nreads
LocalEstimate(stat, rat_nreads, quant) ==
    LET rat       == ISum(Lens(rat_nreads))
        nrawreads == ISum(Counts(rat_nreads))
        nreads_v  == Counts(rat_nreads)
    IN  IF stat = "avg_g" \/ (quant = 0 /\ stat \in {"wavg_g", "tavg_g"})
        THEN RNorm(nrawreads, rat)
        ELSE IF stat = "avg_l" \/ (quant = 0 /\ stat \in {"wavg_l", "tavg_l"})
        THEN Mean(Ratios(rat_nreads))
        ELSE IF stat = "tavg_g"
        THEN LET wnreads == Band(SortedByRatio(rat_nreads), quant)
                 den     == ISum(Lens(wnreads))
                 num     == ISum(Counts(wnreads))
             IN  IF den # 0 THEN RNorm(num, den) ELSE RZero
        ELSE IF stat = "tavg_l"
        THEN Mean(Band(Ratios(SortedByRatio(rat_nreads)), quant))
        ELSE IF stat = "wavg_g"
        THEN RNorm(ISum(Winsorized(nreads_v, quant)), rat)
        ELSE IF stat = "wavg_l"
        THEN Mean(Winsorized(Ratios(SortedByRatio(rat_nreads)), quant))
        ELSE IF stat = "med"
        THEN Median(Band(Ratios(SortedByRatio(rat_nreads)), quant))
        ELSE RZero

\* The guard of the strain rule: which clades it looks at.
StrainRuleApplies(cl) ==
    /\ name[cl][1] = "t"
    /\ \/ Len(children[father[cl]]) > 1
       \/ (father[cl] # root /\ HasSp(name[father[cl]]))
       \/ ContainsViruses(get_full_name(Tree, cl))

\* nreads == 0.0 or non_zeros / nreads < 0.5
UnderHalfNonZeros(non_zeros, nreads) == nreads = 0 \/ non_zeros * 2 < nreads

\* nreads == 0.0 or non_zeros / nreads < 0.7
TooFewNonZeros(non_zeros, nreads) == nreads = 0 \/ non_zeros * 10 < 7 * nreads

\* The strain rule sets the abundance to 0.0 and returns.
ZeroedOut(cl, rat_nreads) ==
    /\ StrainRuleApplies(cl)
    /\ TooFewNonZeros(Cardinality({i \in DOMAIN rat_nreads : rat_nreads[i].n > 0}),
                      Len(rat_nreads))

\* self.abundance without the elif loc_ab < sum_ab
ClampNoFloor(loc_ab, sum_ab, rat, has_children) ==
    IF rat < pars.min_cu_len /\ has_children THEN sum_ab ELSE loc_ab

\* self.abundance after the two clamps
Clamp(loc_ab, sum_ab, rat, has_children) ==
    IF rat < pars.min_cu_len /\ has_children THEN sum_ab
    ELSE IF RLt(loc_ab, sum_ab) THEN sum_ab
    ELSE loc_ab

\* self.uncl_abundance left as TaxClade.__init__ set it
UnclassifiedNever(ab, sum_ab, has_children) == RZero

\* self.uncl_abundance
Unclassified(ab, sum_ab, has_children) ==
    IF RLt(sum_ab, ab) /\ has_children THEN RSub(ab, sum_ab) ELSE RZero

\* self.subcl_uncl = self.name[0] not in tax_units[-2:]
SubclUnclOfAny(cl) == name[cl][1] \notin {"s", "t"}

\* self.subcl_uncl
SubclUncl(cl) == children[cl] = <<>> /\ name[cl][1] \notin {"s", "t"}

\* What compute_abundance leaves in a clade, and the locals it ended with.
Computed(F, act, sum_ab, rat, quant, zeroed, loc_ab, ab, uncl, subcl, writes) ==
    [keyerror       |-> F.keyerror,
     abundance      |-> ab,
     uncl_abundance |-> uncl,
     subcl_uncl     |-> subcl,
     locals         |-> [sum_ab |-> sum_ab, filtered |-> F.rat_nreads,
                         removed |-> F.removed, rat_nreads |-> act,
                         rat |-> rat, quant |-> quant, zeroed |-> zeroed,
                         loc_ab |-> loc_ab, writes |-> writes]]

\* The values the statements self.abundance = ... assign, in order:
\* loc_ab, then sum_ab if one of the two clamps is taken.
Assignments(loc_ab, sum_ab, rat, has_children) ==
    IF (rat < pars.min_cu_len /\ has_children) \/ RLt(loc_ab, sum_ab)
    THEN <<loc_ab, sum_ab>>
    ELSE <<loc_ab>>

\* The end of compute_abundance: uncl_abundance and subcl_uncl.
Finish(cl, sum_ab, F, act, rat, quant, loc_ab, ab) ==
    Computed(F, act, sum_ab, rat, quant, FALSE, loc_ab, ab,
             Unclassified(ab, sum_ab, children[cl] # <<>>), SubclUncl(cl),
             Assignments(loc_ab, sum_ab, rat, children[cl] # <<>>))

\* self.abundance = loc_ab, clamped
Assign(cl, sum_ab, F, act, rat, quant, loc_ab) ==
    Finish(cl, sum_ab, F, act, rat, quant, loc_ab,
           Clamp(loc_ab, sum_ab, rat, children[cl] # <<>>))

\* The strain rule, or the estimate of the statistic.
Settle(cl, sum_ab, F, act, rat, quant) ==
    IF ZeroedOut(cl, act)
    THEN Computed(F, act, sum_ab, rat, quant, TRUE, RZero, RZero, RZero, FALSE,
                  <<RZero>>)
    ELSE Assign(cl, sum_ab, F, act, rat, quant,
                IF rat < 0 THEN RZero ELSE LocalEstimate(pars.stat, act, quant))

\* rat = float(sum(rat_v)) or -1.0
Rat(act) == IF ISum(Lens(act)) = 0 THEN -1 ELSE ISum(Lens(act))

\* rat and quant of the sorted active markers
Measure(cl, sum_ab, F, act) ==
    Settle(cl, sum_ab, F, act, Rat(act), Quant(pars.quantile, Len(act)))

\* The restoration and the sort by count.
Activate(cl, sum_ab, F) ==
    Measure(cl, sum_ab, F, SortedByCount(Restore(cl, F.rat_nreads, F.removed)))

\* compute_abundance of clade cl once its children are done and their
\* abundances sum to sum_ab: what it leaves in the clade.
ComputeClade(cl, sum_ab) ==
    Activate(cl, sum_ab,
             FilterMarkers(markers2nreads[cl], 1,
                           [rat_nreads |-> <<>>, removed |-> <<>>, keyerror |-> FALSE]))

\* ------------------------------------------------------------------------
\* TaxClade.compute_abundance: the recursion
\* ------------------------------------------------------------------------

\* No early return: the abundance is computed at every call.
NeverComputed(ab) == FALSE

\* if self.abundance is not None: return self.abundance
IsComputed(ab) == ab # None

\* The fields compute_abundance writes, of every clade.
AbState == [abundance |-> abundance, uncl_abundance |-> uncl_abundance,
            subcl_uncl |-> subcl_uncl, locals |-> locals,
            assigned |-> assigned, keyerror |-> FALSE]

\* sum_ab without the children
NoChildren(S, cl) == RZero

\* sum_ab
SumOfChildren(S, cl) ==
    RSum(List([i \in DOMAIN children[cl] |-> S.abundance[children[cl][i][2]]]))

\* The assignments to the fields of cl, unless the computation raised.
StoreClade(S, cl, R) ==
    IF R.keyerror THEN [S EXCEPT !.keyerror = TRUE]
    ELSE [S EXCEPT !.abundance[cl] = R.abundance,
                   !.uncl_abundance[cl] = R.uncl_abundance,
                   !.subcl_uncl[cl] = R.subcl_uncl,
                   !.locals[cl] = R.locals,
                   !.assigned[cl] = Append(@, R.locals.writes)]

\* The clade itself, once its children are done in state S.
ComputeSelf(S, cl) ==
    IF S.keyerror THEN S
    ELSE StoreClade(S, cl, ComputeClade(cl, SumOfChildren(S, cl)))

RECURSIVE compute_abundance(_, _), ComputeChildren(_, _, _)
\* The children of cl from the i-th on, until one raises.
ComputeChildren(S, cl, i) ==
    IF i > Len(children[cl]) \/ S.keyerror THEN S
    ELSE ComputeChildren(compute_abundance(S, children[cl][i][2]), cl, i + 1)

\* cl.compute_abundance() in state S: the state it leaves.
compute_abundance(S, cl) ==
    IF IsComputed(S.abundance[cl]) THEN S
    ELSE ComputeSelf(ComputeChildren(S, cl, 1), cl)

\* ------------------------------------------------------------------------
\* TaxClade.get_all_abundances, TaxTree.relative_abundances
\* ------------------------------------------------------------------------

Unclassified_ == "_unclassified"

RECURSIVE get_all_abundances(_, _), ChildrenAbundances(_, _, _)
ChildrenAbundances(S, cl, i) ==
    IF i > Len(children[cl]) THEN <<>>
    ELSE get_all_abundances(S, children[cl][i][2])
         \o ChildrenAbundances(S, cl, i + 1)

\* The (name, abundance) pairs of clade cl and of all below it.
get_all_abundances(S, cl) ==
    LET nm   == name[cl]
        own  == << <<nm, S.abundance[cl]>> >>
        uncl == IF RLt(RZero, S.uncl_abundance[cl])
                THEN << << <<children[cl][1][1][1], nm[2], Unclassified_>>,
                           S.uncl_abundance[cl] >> >>
                ELSE <<>>
        sub  == IF S.subcl_uncl[cl] /\ nm[1] # tax_units[Len(tax_units) - 1]
                THEN << << <<tax_units[TaxIndex(nm[1]) + 1], nm[2], Unclassified_>>,
                           S.abundance[cl] >> >>
                ELSE <<>>
    IN  own \o uncl \o sub \o ChildrenAbundances(S, cl, 1)

\* tax_lev of relative_abundances: None, or the rank letter of "<letter>__"
NoTaxLev == "a"

\* The clades relative_abundances starts from, in the order of all_clades.
KingdomClades ==
    LET ks == SelectSeq(all_clades, LAMBDA it : it[1][1] = "k")
    IN  List([i \in DOMAIN ks |-> ks[i][2]])

\* The key under which relative_abundances files the pair named cl when no
\* tax_lev is given: the full name, or for a synthetic name the full name
\* of the clade one rank up with the synthetic name appended.  None: the
\* lookup self.all_clades[cl] raises.
FullKey(cl) ==
    IF DictHas(all_clades, cl) THEN get_full_name(Tree, DictGet(all_clades, cl))
    ELSE LET to  == TaxIndex(cl[1])
             t   == tax_units[IF to = 1 THEN Len(tax_units) ELSE to - 1]
             up  == <<t, cl[2]>>
         IN  IF ~DictHas(all_clades, up) THEN None
             ELSE LET spl == get_full_name(Tree, DictGet(all_clades, up))
                  IN  Append(spl, <<tax_units[to], spl[Len(spl)][2], Unclassified_>>)

\* The loop that fills cl2ab, from pair i on.
RECURSIVE CollectAbundances(_, _, _, _)
CollectAbundances(pairs, i, tax_lev, acc) ==
    IF i > Len(pairs) \/ acc.keyerror THEN acc
    ELSE LET cl == pairs[i][1]
             ab == pairs[i][2]
         IN  IF tax_lev = NoTaxLev
             THEN IF FullKey(cl) = None
                  THEN [acc EXCEPT !.keyerror = TRUE]
                  ELSE CollectAbundances(pairs, i + 1, tax_lev,
                         [acc EXCEPT !.cl2ab = DictSet(@, FullKey(cl), ab)])
             ELSE IF cl[1] # tax_lev
                  THEN CollectAbundances(pairs, i + 1, tax_lev, acc)
                  ELSE CollectAbundances(pairs, i + 1, tax_lev,
                         [acc EXCEPT !.cl2ab = DictSet(@, <<cl>>, ab)])

RECURSIVE ComputeAll(_, _, _)
ComputeAll(S, clades, i) ==
    IF i > Len(clades) \/ S.keyerror THEN S
    ELSE ComputeAll(compute_abundance(S, clades[i]), clades, i + 1)

RECURSIVE AllAbundances(_, _, _)
AllAbundances(S, clades, i) ==
    IF i > Len(clades) THEN <<>>
    ELSE get_all_abundances(S, clades[i]) \o AllAbundances(S, clades, i + 1)

\* tot_ab
TotalAbundance(S, clades) ==
    RSum(List([i \in DOMAIN clades |-> S.abundance[clades[i]]]))

\* The abundance as it is, not divided.
NotNormalized(v, tot_ab) == v

\* float(v) / tot_ab if tot_ab else 0.0
Normalize(v, tot_ab) == IF tot_ab # RZero THEN RDiv(v, tot_ab) ELSE RZero

\* ret_d as it is, with no entry for the rest
WithoutUnclassified(S, tax_lev, keyerror, ret_d) ==
    [S |-> S, keyerror |-> keyerror, ret_d |-> ret_d]

\* ret_d[tax_lev+"unclassified"] = 1.0 - sum(ret_d.values())
WithUnclassified(S, tax_lev, keyerror, ret_d) ==
    [S |-> S, keyerror |-> keyerror,
     ret_d |-> IF tax_lev = NoTaxLev THEN ret_d
               ELSE DictSet(ret_d, << <<tax_lev, "unclassified">> >>,
                            RSub(ROne, RSum(DictValues(ret_d))))]

\* ret_d
Normalized(S, tax_lev, tot_ab, C) ==
    WithUnclassified(S, tax_lev, C.keyerror,
       List([i \in DOMAIN C.cl2ab |->
               <<C.cl2ab[i][1], Normalize(C.cl2ab[i][2], tot_ab)>>]))

\* The second loop over cl2ab_n and what follows it.
Collect(S, tax_lev) ==
    IF S.keyerror THEN [S |-> S, keyerror |-> TRUE, ret_d |-> <<>>]
    ELSE Normalized(S, tax_lev, TotalAbundance(S, KingdomClades),
                    CollectAbundances(AllAbundances(S, KingdomClades, 1), 1, tax_lev,
                                      [cl2ab |-> <<>>, keyerror |-> FALSE]))

\* relative_abundances( tax_lev ) in state S: [S, keyerror, ret_d]
relative_abundances(S, tax_lev) ==
    Collect(ComputeAll(S, KingdomClades, 1), tax_lev)

\* ------------------------------------------------------------------------
\* __main__: the relative-abundance table
\* ------------------------------------------------------------------------

\* A percentage rounded to five decimals is the integer number of its
\* 0.00001 steps.
Decimals == 100000

\* round( v*100.0, 5 ) for 0 <= v <= 1
RoundPercent(v) ==
    LET x == v[1] * 100 * Decimals
    IN  (x \div v[2]) + (IF 2 * (x % v[2]) >= v[2] THEN 1 ELSE 0)

\* x[0].count("|")
Separators(k) == Len(k) - 1

\* key = lambda x: x[1]
AbundanceKey(row) == row[2]

\* key = lambda x: x[1] + (100.0*(8-x[0].count("|")))
OutputKey(row) == row[2] + 100 * Decimals * (8 - Separators(row[1]))

\* sorted( outpred, reverse=True, key=... ): descending, equal keys in their
\* first order
OutputOrder(outpred) ==
    Sorted(outpred, List([i \in DOMAIN outpred |-> RInt(0 - OutputKey(outpred[i]))]))

\* The rows written for cl2ab.
OutputRows(cl2ab) ==
    LET kept    == SelectSeq(cl2ab, LAMBDA it : RLt(RZero, it[2]))
        outpred == List([i \in DOMAIN kept |->
                          <<kept[i][1], RoundPercent(kept[i][2])>>])
    IN  IF outpred # <<>> THEN OutputOrder(outpred)
        ELSE << << << <<"unclassified">> >>, 100 * Decimals >> >>

\* ------------------------------------------------------------------------
\* Actions
\* ------------------------------------------------------------------------

Unbuilt ==
    /\ pc = "start"
    /\ name = EmptyTree.name
    /\ children = EmptyTree.children
    /\ father = EmptyTree.father
    /\ all_clades = Empty
    /\ taxa2clades = Empty
    /\ markers2lens = Empty
    /\ markers2clades = Empty
    /\ markers2exts = Empty
    /\ markers2nreads = << <<>> >>
    /\ abundance = <<None>>
    /\ uncl_abundance = <<RZero>>
    /\ subcl_uncl = <<FALSE>>
    /\ locals = <<None>>
    /\ assigned = << <<>> >>
    /\ ret = [op |-> "none"]
    /\ late = 0
    /\ markers2reads = Empty
    /\ position = 0
    /\ map_out = <<>>
    /\ calls = 0

Init ==
    /\ Unbuilt
    /\ mpa_pkl \in DatabaseNames
    /\ pars \in AllPars
    /\ inp = <<>>

\* tree = TaxTree( mpa_pkl ); set_min_cu_len; set_stat
Build ==
    /\ pc = "start"
    /\ LET B == TaxTree(Database(mpa_pkl))
       IN  IF B.M.keyerror
           THEN /\ pc' = "failed"
                /\ UNCHANGED <<treeVars, markers2nreads, abVars>>
           ELSE /\ pc' = "built"
                /\ name' = B.T.name
                /\ children' = B.T.children
                /\ father' = B.T.father
                /\ all_clades' = B.T.all_clades
                /\ taxa2clades' = B.T.taxa2clades
                /\ markers2lens' = B.M.markers2lens
                /\ markers2clades' = B.M.markers2clades
                /\ markers2exts' = B.M.markers2exts
                /\ markers2nreads' = B.M.markers2nreads
                /\ abundance' = [cl \in DOMAIN B.T.name |-> None]
                /\ uncl_abundance' = [cl \in DOMAIN B.T.name |-> RZero]
                /\ subcl_uncl' = [cl \in DOMAIN B.T.name |-> FALSE]
                /\ locals' = [cl \in DOMAIN B.T.name |-> None]
                /\ assigned' = [cl \in DOMAIN B.T.name |-> <<>>]
    /\ ret' = [op |-> "TaxTree"]
    /\ UNCHANGED <<mpa_pkl, pars, late, mapVars, calls>>

\* Whether some clade's abundance has been computed.
SomeComputed == \E cl \in Clades : IsComputed(abundance[cl])

\* tax_seq = tree.add_reads( marker, n, ignore_... ) before any abundance
\* is computed
AddReads(marker, n, flags) ==
    /\ pc = "built"
    /\ marker \in DOMAIN markers2clades
    /\ ~SomeComputed
    /\ LET r == add_reads(Tree, markers2clades, markers2nreads, marker, n, flags)
       IN  /\ markers2nreads' = r.m2n
           /\ ret' = [op |-> "add_reads", val |-> r.ret]
    /\ UNCHANGED <<pc, mpa_pkl, pars, treeVars, abVars, late, mapVars, calls>>

\* The reads recorded in the tree.
ReadsRecorded(m2n) == ISum(List([cl \in DOMAIN m2n |-> ISum(DictValues(m2n[cl]))]))

\* The read injection loop of __main__ for the relative-abundance table,
\* which has no use for tax_seq, with the ignore_ options left off: one
\* marker of the mapping that the database knows, with its reads.
RecordReads(marker, n) ==
    /\ pc = "built"
    /\ marker \in DOMAIN markers2lens
    /\ ~SomeComputed
    /\ markers2nreads' = add_reads(Tree, markers2clades, markers2nreads,
                                   marker, n, {}).m2n
    /\ ReadsRecorded(markers2nreads') <= MaxReads
    /\ UNCHANGED <<pc, mpa_pkl, pars, treeVars, abVars, ret, late, mapVars, calls>>

\* add_reads once an abundance has been computed
LateAddReads(marker, n) ==
    /\ pc = "built"
    /\ marker \in DOMAIN markers2clades
    /\ SomeComputed
    /\ late < MaxLate
    /\ late' = late + 1
    /\ LET r == add_reads(Tree, markers2clades, markers2nreads, marker, n, {})
       IN  /\ markers2nreads' = r.m2n
           /\ ret' = [op |-> "add_reads", val |-> r.ret]
    /\ UNCHANGED <<pc, mpa_pkl, pars, treeVars, abVars, mapVars, calls>>

\* markers2reads = map2bbh( pars['inp'], pars['input_type'] )
Map ==
    /\ pc = "built"
    /\ pc' = "mapped"
    /\ markers2reads' = map2bbh(inp, pars.input_type)
    /\ ret' = [op |-> "map2bbh"]
    /\ UNCHANGED <<mpa_pkl, pars, treeVars, markers2nreads, abVars, late,
                   inp, position, map_out, calls>>

\* if marker not in tree.markers2lens: continue
AnyMarker(marker) == TRUE

\* marker in tree.markers2lens
Known(marker) == marker \in DOMAIN markers2lens

\* The orders a set can be gone through in.
Orderings(S) == {s \in [1..Cardinality(S) -> S] : Range(s) = S}

\* ["\t".join([r,tax_seq]) for r in reads]
MapLines(order, tax_seq) == List([i \in DOMAIN order |-> <<order[i], tax_seq>>])

\* One turn of the loop over markers2reads.items(); the reads of the
\* marker are gone through in the given order.
Inject(order) ==
    /\ pc = "mapped"
    /\ position < Len(markers2reads)
    /\ order \in Orderings(markers2reads[position + 1][2])
    /\ IF ~Known(markers2reads[position + 1][1])
       THEN /\ position' = position + 1
            /\ UNCHANGED <<pc, markers2nreads, map_out, ret>>
       ELSE LET r == add_reads(Tree, markers2clades, markers2nreads,
                               markers2reads[position + 1][1],
                               Len(order), pars.ignore)
            IN  IF r.keyerror
                THEN /\ pc' = "crashed"
                     /\ ret' = [op |-> "KeyError"]
                     /\ UNCHANGED <<position, markers2nreads, map_out>>
                ELSE /\ position' = position + 1
                     /\ markers2nreads' = r.m2n
                     /\ map_out' = IF r.ret # <<>>
                                   THEN map_out \o MapLines(order, r.ret)
                                   ELSE map_out
                     /\ ret' = [op |-> "add_reads", val |-> r.ret]
                     /\ pc' = pc
    /\ UNCHANGED <<mpa_pkl, pars, treeVars, abVars, late, inp, markers2reads, calls>>

\* outf.write( "\n".join( map_out ) + "\n" ) once the loop is over
ReadsMap ==
    /\ pc = "mapped"
    /\ position = Len(markers2reads)
    /\ pc' = "done"
    /\ ret' = [op |-> "reads_map", outf |-> map_out]
    /\ UNCHANGED <<mpa_pkl, pars, treeVars, markers2nreads, abVars, late, mapVars, calls>>

\* What a call cl.compute_abundance() that ends in state S leaves.
ComputeStep(cl, S) ==
    /\ abundance' = S.abundance
    /\ uncl_abundance' = S.uncl_abundance
    /\ subcl_uncl' = S.subcl_uncl
    /\ locals' = S.locals
    /\ assigned' = S.assigned
    /\ pc' = IF S.keyerror THEN "crashed" ELSE pc
    /\ ret' = IF S.keyerror THEN [op |-> "KeyError"]
              ELSE [op |-> "compute_abundance", clade |-> cl,
                    cached |-> IsComputed(abundance[cl]),
                    val |-> S.abundance[cl]]

\* cl.compute_abundance(); a KeyError ends the run
Compute(cl) ==
    /\ pc = "built"
    /\ cl \in Clades
    /\ ComputeStep(cl, compute_abundance(AbState, cl))
    /\ UNCHANGED <<mpa_pkl, pars, treeVars, markers2nreads, late, mapVars, calls>>

\* What the rel_ab branch leaves when relative_abundances returns R.
RelAbStep(tax_lev, R) ==
    /\ abundance' = R.S.abundance
    /\ uncl_abundance' = R.S.uncl_abundance
    /\ subcl_uncl' = R.S.subcl_uncl
    /\ locals' = R.S.locals
    /\ assigned' = R.S.assigned
    /\ pc' = IF R.keyerror THEN "crashed" ELSE "done"
    /\ ret' = IF R.keyerror THEN [op |-> "KeyError"]
              ELSE [op |-> "rel_ab", tax_lev |-> tax_lev,
                    cl2ab |-> R.ret_d, outf |-> OutputRows(R.ret_d)]

\* cl2ab = tree.relative_abundances( tax_lev ) and the rows written for it
RelAb(tax_lev) ==
    /\ pc = "built"
    /\ RelAbStep(tax_lev, relative_abundances(AbState, tax_lev))
    /\ calls' = calls + 1
    /\ UNCHANGED <<mpa_pkl, pars, treeVars, markers2nreads, late, mapVars>>

\* A further call of tree.relative_abundances on the tree of a run that
\* has written its table.
RelAbAgain(tax_lev) ==
    /\ pc = "done"
    /\ ret.op = "rel_ab"
    /\ calls < MaxCalls
    /\ RelAbStep(tax_lev, relative_abundances(AbState, tax_lev))
    /\ calls' = calls + 1
    /\ UNCHANGED <<mpa_pkl, pars, treeVars, markers2nreads, late, mapVars>>

AllMarkers == {"a1", "a2", "a3", "a4", "b1", "b2", "b3", "b4", "b5",
               "c1", "c2", "c3", "d1", "d2", "d3", "e1", "e2", "f1", "f2",
               "m1", "m2", "r1", "r2", "r3", "r4", "r5", "r6", "r7", "r8",
               "r9", "r10", "r11", "r12", "y1", "y2", "z1", "NC_001782.1"}

\* --tax_lev: all ranks, or one of them
TaxLevs == {NoTaxLev, "k", "s"}

\* The run of __main__ that writes the relative-abundance table.
Next ==
    \/ Build
    \/ \E marker \in AllMarkers, n \in 0..MaxReads : RecordReads(marker, n)
    \/ \E tax_lev \in TaxLevs : RelAb(tax_lev)

Spec == Init /\ [][Next]_vars

\* The tree and add_reads alone.
InitTree == Init /\ pars.stat = "tavg_g" /\ ~pars.avoid_disqm

NextTree ==
    \/ Build
    \/ \E marker \in AllMarkers, n \in 0..MaxCount, flags \in FlagSets :
          AddReads(marker, n, flags)

SpecTree == InitTree /\ [][NextTree]_vars

\* Calls of add_reads and compute_abundance in any order.
InitApi == Init /\ mpa_pkl = "D" /\ pars.stat \in {"avg_g", "wavg_l", "med"}

NextApi ==
    \/ Build
    \/ \E marker \in AllMarkers, n \in 0..MaxCount : AddReads(marker, n, {})
    \/ \E marker \in AllMarkers, n \in 0..MaxCount : LateAddReads(marker, n)
    \/ \E cl \in Clades : Compute(cl)

SpecApi == InitApi /\ [][NextApi]_vars

\* The rel_ab run followed by further calls of relative_abundances on the
\* same tree.  The run goes on until it ends: the program has one thread,
\* which builds the tree and then calls relative_abundances.
\* __main__ runs straight through: the constructor returns or raises, and
\* the call of relative_abundances that follows returns or raises. These
\* are the steps of Build and of RelAb, each of which is enabled in every
\* state of its pc.
TreeMade == pc = "start" /\ pc' \in {"built", "failed"}
TableMade == pc = "built" /\ pc' \in {"done", "crashed"}

NextCalls ==
    \/ Next
    \/ \E tax_lev \in TaxLevs : RelAbAgain(tax_lev)

\* The runs that are called again: the databases with a clamped clade (A)
\* and with a clade of measured abundance above its children's (C).
InitCalls ==
    /\ Unbuilt
    /\ mpa_pkl \in {"A", "C"}
    /\ pars \in [stat : {"avg_g", "med"}, quantile : Quantiles, avoid_disqm : BOOLEAN,
                min_cu_len : MinCuLens]
    /\ inp = <<>>

SpecCalls ==
    /\ InitCalls
    /\ [][NextCalls]_vars
    /\ WF_pc(TreeMade)
    /\ WF_pc(TableMade)

\* The rel_ab run with the clades' marker lengths on both sides of
\* min_cu_len.
InitClamp ==
    /\ Unbuilt
    /\ mpa_pkl \in {"A", "C", "D"}
    /\ pars \in [stat : stat_choices, quantile : Quantiles, avoid_disqm : BOOLEAN,
                min_cu_len : {2, 4}]
    /\ inp = <<>>

SpecClamp == InitClamp /\ [][Next]_vars

\* The rel_ab run on the databases with shared markers, each marker with
\* MaxCount reads at most.
InitRestore ==
    /\ Unbuilt
    /\ mpa_pkl \in {"R", "B", "C"}
    /\ pars \in [stat : {"avg_g"}, quantile : Quantiles, avoid_disqm : BOOLEAN,
                min_cu_len : MinCuLens]
    /\ inp = <<>>

NextRestore ==
    \/ Build
    \/ \E marker \in AllMarkers, n \in 0..MaxCount : RecordReads(marker, n)
    \/ \E tax_lev \in TaxLevs : RelAb(tax_lev)

SpecRestore == InitRestore /\ [][NextRestore]_vars

\* The calls of the tree on the database of two strains, for every
\* statistic, with the counts 0, 1 and 5.
ScenarioCounts == {0, 1, 5}

InitScenario ==
    /\ Unbuilt
    /\ mpa_pkl = "E"
    /\ pars \in [stat : stat_choices, quantile : Quantiles, avoid_disqm : BOOLEAN,
                min_cu_len : {2, 2000}]
    /\ inp = <<>>

NextScenario ==
    \/ Build
    \/ \E marker \in AllMarkers, n \in ScenarioCounts : AddReads(marker, n, {})
    \/ \E cl \in Clades : Compute(cl)
    \/ \E tax_lev \in TaxLevs : RelAb(tax_lev)

SpecScenario == InitScenario /\ [][NextScenario]_vars

\* The run of __main__ that writes the reads map.
ReadIds == {"r1", "r2"}
MapMarkers == {"a1", "b1", "NC_001782.1", "zz"}

\* The lines a mapping file of that type is made of.
Lines(input_type) ==
    (ReadIds \X MapMarkers)
    \cup (IF input_type = "sam" THEN {<<"@SQ", "LN:1">>, <<"r1", "*">>} ELSE {})

MappingFiles(input_type) ==
    UNION {[1..n -> Lines(input_type)] : n \in 0..MaxLines}

AllOrders == UNION {Orderings(S) : S \in SUBSET ReadIds}

InitMap ==
    /\ Unbuilt
    /\ mpa_pkl \in {"A", "B"}
    /\ pars \in MapPars
    /\ inp \in MappingFiles(pars.input_type)

NextMap ==
    \/ Build
    \/ Map
    \/ \E order \in AllOrders : Inject(order)
    \/ ReadsMap

SpecMap == InitMap /\ [][NextMap]_vars

\* ------------------------------------------------------------------------
\* Properties: what they speak of
\* ------------------------------------------------------------------------

\* cl and the clades below it down its single-child links, to the first
\* clade that has no child or at least two.
RECURSIVE SingleChildChain(_)
SingleChildChain(cl) ==
    IF Len(children[cl]) = 1
    THEN <<cl>> \o SingleChildChain(children[cl][1][2])
    ELSE <<cl>>

ChainEnd(cl) == SingleChildChain(cl)[Len(SingleChildChain(cl))]

\* The clade named nm.
CladeNamed(nm) == CHOOSE cl \in Clades : name[cl] = nm

\* The names from the top of the tree down to cl.
RECURSIVE Lineage(_)
Lineage(cl) == IF cl = root THEN <<>> ELSE Append(Lineage(father[cl]), name[cl])

\* The sum of the abundances of the children of cl.
ChildrenSum(cl) ==
    RSum(List([i \in DOMAIN children[cl] |-> abundance[children[cl][i][2]]]))

\* The clades that hold an entry for marker m.
Holders(m) == {cl \in DOMAIN markers2nreads : DictHas(markers2nreads[cl], m)}

\* The markers of the database that the tree takes in.
DatabaseMarkers ==
    {Database(mpa_pkl).markers[i].id : i \in DOMAIN Database(mpa_pkl).markers}
        \ markers_to_exclude

\* ------------------------------------------------------------------------
\* C1
\* ------------------------------------------------------------------------

\* C1: monotonicity.  Every clade whose abundance has been computed has all
\* its children computed, and its abundance is at least the sum of theirs;
\* when the table has been written this is every clade of the tree.  The
\* specification runs it for the seven statistics, with disambiguation on
\* and off, over every assignment of the sample's reads to the markers.
C1_Monotonicity ==
    /\ \A cl \in Clades :
          abundance[cl] # None =>
             /\ \A i \in DOMAIN children[cl] : abundance[children[cl][i][2]] # None
             /\ RLe(ChildrenSum(cl), abundance[cl])
    /\ pc = "done" => \A cl \in Clades : abundance[cl] # None

\* A clade with children and enough marker length whose own estimate fell
\* below the sum of its children, which are not all zero.
C1_Witness ==
    /\ pc = "done"
    /\ \E cl \in Clades :
          /\ children[cl] # <<>>
          /\ locals[cl].rat >= pars.min_cu_len
          /\ RLt(locals[cl].loc_ab, ChildrenSum(cl))
          /\ abundance[cl] = ChildrenSum(cl)

\* ------------------------------------------------------------------------
\* C2
\* ------------------------------------------------------------------------

\* C2: memoization.  No step changes the abundance, uncl_abundance or
\* subcl_uncl of a clade whose abundance is computed, whatever is done to
\* markers2nreads in between; and compute_abundance called on such a clade
\* returns the stored abundance, which is what the first call returned.
C2_Memoized ==
    [][ /\ \A cl \in Clades :
              abundance[cl] # None =>
                 /\ abundance'[cl] = abundance[cl]
                 /\ uncl_abundance'[cl] = uncl_abundance[cl]
                 /\ subcl_uncl'[cl] = subcl_uncl[cl]
        /\ (ret'.op = "compute_abundance" /\ abundance[ret'.clade] # None)
              => ret'.val = abundance[ret'.clade]
      ]_vars

\* A second call has returned the stored value after add_reads changed the
\* counts so that a fresh computation would give another one.
C2_Witness ==
    /\ ret.op = "compute_abundance"
    /\ ret.cached
    /\ late > 0
    /\ ComputeClade(ret.clade, locals[ret.clade].sum_ab).abundance # ret.val

\* ------------------------------------------------------------------------
\* C3
\* ------------------------------------------------------------------------

\* The kingdom-level clades.
Kingdoms == {cl \in Clades : name[cl][1] = "k"}

\* The value relative_abundances returned under key k.
Returned(k) == DictGet(ret.cl2ab, k)

\* C3: normalization without a rank filter.  The value returned for each
\* clade is its abundance divided by the sum of the kingdom-level clades'
\* abundances and the values of the kingdom-level clades sum to 1, when
\* that sum is not zero; every value returned is 0 when it is zero.
C3_Normalized ==
    (ret.op = "rel_ab" /\ ret.tax_lev = NoTaxLev) =>
       LET tot == RSum(List([i \in DOMAIN SeqOfSet(Kingdoms) |->
                               abundance[SeqOfSet(Kingdoms)[i]]]))
       IN  IF tot # RZero
           THEN /\ \A cl \in Clades :
                      /\ DictHas(ret.cl2ab, Lineage(cl))
                      /\ Returned(Lineage(cl)) = RDiv(abundance[cl], tot)
                /\ RSum(List([i \in DOMAIN SeqOfSet(Kingdoms) |->
                                Returned(Lineage(SeqOfSet(Kingdoms)[i]))])) = ROne
           ELSE \A i \in DOMAIN ret.cl2ab : ret.cl2ab[i][2] = RZero

\* Two kingdoms with reads share the total.
C3_Witness ==
    /\ ret.op = "rel_ab"
    /\ ret.tax_lev = NoTaxLev
    /\ Cardinality({cl \in Kingdoms : RLt(RZero, abundance[cl])}) >= 2

\* ------------------------------------------------------------------------
\* C4
\* ------------------------------------------------------------------------

\* The markers other than m held by clade cl, and those of them with reads.
OtherMarkers(cl, m) ==
    {i \in DOMAIN markers2nreads[cl] : markers2nreads[cl][i][1] # m}

OtherMarkersWithReads(cl, m) ==
    {i \in OtherMarkers(cl, m) : markers2nreads[cl][i][2] > 0}

\* More than 0.33 of the markers other than m of the clade reached from the
\* clade of taxon e down its single-child chain carry reads.
RelatedCladeDetected(m, e) ==
    /\ e \in DOMAIN taxa2clades
    /\ LET b == ChainEnd(taxa2clades[e])
       IN  /\ OtherMarkers(b, m) # {}
           /\ 100 * Cardinality(OtherMarkersWithReads(b, m))
                 > 33 * Cardinality(OtherMarkers(b, m))

\* The markers of a list of (length, count) entries.
MarkersOf(entries) == {entries[i].m : i \in DOMAIN entries}

\* C4: quasi-marker disambiguation.  In the computation of a clade, a marker
\* it holds is put in the removed set, and not in the active set, exactly
\* when disambiguation is enabled and one of the taxa of its extended set
\* leads to a clade more than 0.33 of whose other markers carry reads; every
\* other marker is in the active set and not in the removed one.  With
\* disambiguation disabled nothing is removed.
C4_Disambiguation ==
    \A cl \in Clades :
       locals[cl] # None =>
          \A i \in DOMAIN markers2nreads[cl] :
             LET m       == markers2nreads[cl][i][1]
                 flagged == /\ ~pars.avoid_disqm
                            /\ \E j \in DOMAIN markers2exts[m] :
                                  RelatedCladeDetected(m, markers2exts[m][j])
             IN  /\ (m \in MarkersOf(locals[cl].removed)) <=> flagged
                 /\ (m \in MarkersOf(locals[cl].filtered)) <=> ~flagged

\* A marker was removed on the evidence of a clade reached through a
\* single-child chain, half of whose four markers carry reads.
C4_Witness ==
    /\ pc = "done"
    /\ \E cl \in Clades :
          \E i \in DOMAIN locals[cl].removed :
             \E j \in DOMAIN markers2exts[locals[cl].removed[i].m] :
                LET e == markers2exts[locals[cl].removed[i].m][j]
                    b == ChainEnd(taxa2clades[e])
                IN  /\ b # taxa2clades[e]
                    /\ Len(markers2nreads[b]) = 4
                    /\ Cardinality(OtherMarkersWithReads(b, locals[cl].removed[i].m)) = 2

\* ------------------------------------------------------------------------
\* C5
\* ------------------------------------------------------------------------

\* The strain clades the rule looks at: the parent has two children or
\* more, or names an unspecified species, or the lineage is viral.
UnderStrainRule(cl) ==
    /\ name[cl][1] = "t"
    /\ \/ Len(children[father[cl]]) >= 2
       \/ HasSp(name[father[cl]])
       \/ <<"k", "Viruses">> \in Range(Lineage(cl))

\* The active markers of cl that carry reads.
ActiveWithReads(cl) ==
    {i \in DOMAIN locals[cl].rat_nreads : locals[cl].rat_nreads[i].n > 0}

\* C5: strain zero-out.  A strain clade under the rule has abundance 0 when
\* it has no active marker or fewer than 70% of its active markers carry
\* reads, whatever the counts and the statistic; with 70% or more the rule
\* leaves it the estimate of the statistic.
C5_StrainZeroOut ==
    \A cl \in Clades :
       (abundance[cl] # None /\ UnderStrainRule(cl)) =>
          LET act == locals[cl].rat_nreads
          IN  IF Len(act) = 0 \/ 10 * Cardinality(ActiveWithReads(cl)) < 7 * Len(act)
              THEN abundance[cl] = RZero
              ELSE children[cl] = <<>> =>
                     abundance[cl] = LocalEstimate(pars.stat, act,
                                                   Quant(pars.quantile, Len(act)))

\* A strain with a sibling has reads on half of its markers and abundance 0.
C5_Witness ==
    /\ pc = "done"
    /\ \E cl \in Clades :
          /\ UnderStrainRule(cl)
          /\ Len(children[father[cl]]) >= 2
          /\ Cardinality(ActiveWithReads(cl)) > 0
          /\ 10 * Cardinality(ActiveWithReads(cl)) < 7 * Len(locals[cl].rat_nreads)
          /\ abundance[cl] = RZero

\* ------------------------------------------------------------------------
\* C6
\* ------------------------------------------------------------------------

\* The count clade cl holds for marker m.
CountOn(m2n, cl, m) == DictGet(m2n[cl], m)

\* What the claim says of add_reads( marker, n, flags ).
AddReadsEffect(marker, n, flags) ==
    LET owner    == CladeNamed(markers2clades[marker])
        excluded == \E f \in flags : Lineage(owner)[1] = KingdomOfFlag(f)
        target   == ChainEnd(owner)
    IN  IF excluded
        THEN /\ ret'.val = <<>>
             /\ markers2nreads' = markers2nreads
        ELSE /\ CountOn(markers2nreads', target, marker) = n
             /\ \A cl \in DOMAIN markers2nreads :
                   /\ DictKeys(markers2nreads'[cl]) = DictKeys(markers2nreads[cl])
                   /\ \A m \in DictKeys(markers2nreads[cl]) :
                         (cl # target \/ m # marker) =>
                            CountOn(markers2nreads', cl, m) = CountOn(markers2nreads, cl, m)
             /\ ret'.val = Lineage(target)

\* C6: add_reads, effect and frame.  A call for a marker whose lineage
\* starts with a kingdom whose flag is set returns no name and changes no
\* count; any other call sets the marker's count on the clade at the end of
\* the owning clade's single-child chain to n, whatever it was, leaves every
\* other count of every clade as it was, and returns that clade's full name.
C6_AddReads ==
    [][ \A marker \in AllMarkers, n \in 0..MaxCount, flags \in FlagSets :
           AddReads(marker, n, flags) => AddReadsEffect(marker, n, flags) ]_vars

\* add_reads has returned the name of a clade below the owning clade, on
\* which the marker now has reads.
C6_Witness ==
    /\ ret.op = "add_reads"
    /\ ret.val # <<>>
    /\ \E m \in DOMAIN markers2clades :
          LET owner == CladeNamed(markers2clades[m])
          IN  /\ ChainEnd(owner) # owner
              /\ ret.val = Lineage(ChainEnd(owner))
              /\ CountOn(markers2nreads, ChainEnd(owner), m) = MaxCount

\* ------------------------------------------------------------------------
\* C7
\* ------------------------------------------------------------------------

\* C7: marker placement.  In a built tree, whatever add_reads calls were
\* made, each marker of the database outside the exclusion set has an entry
\* in exactly one clade, the one at the end of its owning clade's
\* single-child chain; no clade with exactly one child holds an entry; and
\* right after construction every entry is 0.
C7_MarkerPlacement ==
    pc = "built" =>
       /\ \A m \in DatabaseMarkers :
             Holders(m) = {ChainEnd(CladeNamed(markers2clades[m]))}
       /\ \A cl \in DOMAIN markers2nreads :
             /\ Len(children[cl]) = 1 => markers2nreads[cl] = <<>>
             /\ DictKeys(markers2nreads[cl]) \subseteq DatabaseMarkers
             /\ ret.op = "TaxTree" =>
                   \A i \in DOMAIN markers2nreads[cl] : markers2nreads[cl][i][2] = 0

\* A marker owned by a clade with a single child has reads, on another clade.
C7_Witness ==
    /\ pc = "built"
    /\ \E m \in DatabaseMarkers :
          LET owner == CladeNamed(markers2clades[m])
          IN  /\ Len(children[owner]) = 1
              /\ \E cl \in Holders(m) : cl # owner /\ CountOn(markers2nreads, cl, m) > 0

\* ------------------------------------------------------------------------
\* C8
\* ------------------------------------------------------------------------

\* The clade names and the taxon ids of the database's taxonomy.
TaxonomyNames ==
    UNION {Range(Database(mpa_pkl).taxonomy[i]) : i \in DOMAIN Database(mpa_pkl).taxonomy}

TaxonomyTaxa == {nm[2] : nm \in {x \in TaxonomyNames : x[1] = "t"}}

\* Some marker the tree takes in is owned by a clade, or extends to a taxon,
\* that the taxonomy does not have.
Inconsistent ==
    \E i \in DOMAIN Database(mpa_pkl).markers :
       LET p == Database(mpa_pkl).markers[i]
       IN  /\ p.id \notin markers_to_exclude
           /\ \/ p.clade \notin TaxonomyNames
              \/ \E j \in DOMAIN p.ext : p.ext[j] \notin TaxonomyTaxa

\* C8: inconsistencies are fatal at construction.  A database with a marker
\* whose owning clade, or one of whose extended taxa, is absent from the
\* taxonomy never gets past the construction of the tree, and no run ends
\* in a failed lookup once the tree is built.
C8_ConstructionFatal ==
    /\ Inconsistent => pc \in {"start", "failed"}
    /\ pc # "crashed"

\* A run has ended in the failed lookup of an extended taxon, in a tree
\* that was built from an inconsistent database.
C8_Witness ==
    /\ Inconsistent
    /\ pc = "crashed"
    /\ ret.op = "KeyError"

\* ------------------------------------------------------------------------
\* C9
\* ------------------------------------------------------------------------

\* The values with each of the quant lowest replaced by the lowest retained
\* value and each of the quant highest by the highest retained value; v is
\* ascending.
TailsReplaced(v, quant) ==
    List([i \in DOMAIN v |->
            IF i <= quant THEN v[quant + 1]
            ELSE IF i > Len(v) - quant THEN v[Len(v) - quant]
            ELSE v[i]])

\* The ratios count / length of the entries, ascending.
AscendingRatios(entries) == Ratios(SortedByRatio(entries))

\* C9: winsorized statistics.  For wavg_g and wavg_l with quant > 0, on a
\* clade that the strain rule does not zero, the estimate is the sum of the
\* counts with their tails replaced over the total active length (wavg_g),
\* or the mean of the ratios with their tails replaced (wavg_l).
C9_Winsorized ==
    \A cl \in Clades :
       (/\ locals[cl] # None
        /\ pars.stat \in {"wavg_g", "wavg_l"}
        /\ locals[cl].quant > 0
        /\ ~locals[cl].zeroed) =>
          LET act == locals[cl].rat_nreads
              q   == locals[cl].quant
          IN  locals[cl].loc_ab =
                 IF pars.stat = "wavg_g"
                 THEN RNorm(ISum(TailsReplaced(Counts(act), q)), ISum(Lens(act)))
                 ELSE Mean(TailsReplaced(AscendingRatios(act), q))

\* Under wavg_g the highest count, above the highest retained one, is still
\* in the sum.
C9_Witness ==
    /\ pc = "done"
    /\ pars.stat = "wavg_g"
    /\ \E cl \in Clades :
          LET act == locals[cl].rat_nreads
              q   == locals[cl].quant
          IN  /\ q > 0
              /\ ~locals[cl].zeroed
              /\ Counts(act)[Len(act)] > Counts(act)[Len(act) - q]
              /\ RLt(RNorm(ISum(TailsReplaced(Counts(act), q)), ISum(Lens(act))),
                     locals[cl].loc_ab)

\* ------------------------------------------------------------------------
\* C10
\* ------------------------------------------------------------------------

\* The rows of the table written, each <<name, rounded percentage>>.
Rows == ret.outf

\* The hierarchy separators of the name of row i.
SeparatorsOf(i) == Len(Rows[i][1]) - 1

\* The sorting key of row i: the rounded percentage plus 100 for each
\* separator short of 8.
KeyOf(i) == Rows[i][2] + 100 * Decimals * (8 - SeparatorsOf(i))

\* C10 as stated: the rows descend by abundance, and among rows of equal
\* abundance the one with fewer separators comes first.
C10_ByAbundance ==
    ret.op = "rel_ab" =>
       \A i, j \in DOMAIN Rows :
          i < j => \/ Rows[i][2] > Rows[j][2]
                   \/ Rows[i][2] = Rows[j][2] /\ SeparatorsOf(i) <= SeparatorsOf(j)

\* C10, amended: the rows descend by the sum of the rounded percentage and
\* 100 x (8 - separators).  A row with fewer separators is never after one
\* with more, among rows with as many separators the larger abundance comes
\* first, and abundance decides nothing between rows of different depth
\* (but a percentage of 100.0 ties with one of 0.0 a level higher).
C10_ByDepthThenAbundance ==
    ret.op = "rel_ab" =>
       \A i, j \in DOMAIN Rows :
          i < j =>
             /\ KeyOf(i) >= KeyOf(j)
             /\ SeparatorsOf(i) <= SeparatorsOf(j)
                   \/ (Rows[i][2] = 100 * Decimals /\ Rows[j][2] = 0)
             /\ SeparatorsOf(i) = SeparatorsOf(j) => Rows[i][2] >= Rows[j][2]

\* A row is written before a deeper row of strictly larger abundance.
C10_Witness ==
    /\ ret.op = "rel_ab"
    /\ \E i, j \in DOMAIN Rows :
          /\ i < j
          /\ SeparatorsOf(i) < SeparatorsOf(j)
          /\ Rows[i][2] < Rows[j][2]

\* ------------------------------------------------------------------------
\* C11
\* ------------------------------------------------------------------------

\* The marker and the reads of the i-th item of markers2reads.
MarkerAt(i) == markers2reads[i][1]
ReadsAt(i)  == markers2reads[i][2]

\* The reads that have a line in the reads map.
MapReads == {map_out[i][1] : i \in DOMAIN map_out}

\* The owning clade of marker m is under a kingdom the run ignores.
UnderIgnoredKingdom(m) ==
    \E f \in pars.ignore :
       Lineage(CladeNamed(markers2clades[m]))[1] = KingdomOfFlag(f)

\* The item the loop has been through is as the claim says.
Tolerated(i) ==
    IF MarkerAt(i) \notin DatabaseMarkers
    THEN /\ Holders(MarkerAt(i)) = {}
         /\ ReadsAt(i) \cap MapReads = {}
    ELSE UnderIgnoredKingdom(MarkerAt(i)) \/
         LET target == ChainEnd(CladeNamed(markers2clades[MarkerAt(i)]))
         IN  /\ CountOn(markers2nreads, target, MarkerAt(i)) = Cardinality(ReadsAt(i))
             /\ \A r \in ReadsAt(i) : <<r, Lineage(target)>> \in Range(map_out)

\* C11: unknown markers are tolerated.  The read loop never ends in an
\* error; a turn of the loop for a marker that the database does not have,
\* or has in the fixed exclusion set, changes no count and adds no line to
\* the reads map; and of the items the loop has been through, such a
\* marker has an entry in no clade and none of its reads has a line, while
\* every marker of the database that is not under an ignored kingdom has
\* the number of its reads as its count and a line for each of its reads.
C11_UnknownTolerated ==
    /\ [](pc # "crashed")
    /\ [](pc \in {"mapped", "done"} => \A i \in 1..position : Tolerated(i))
    /\ [][ \A order \in AllOrders :
             (Inject(order) /\ MarkerAt(position + 1) \notin DatabaseMarkers) =>
                /\ pc' = "mapped"
                /\ position' = position + 1
                /\ markers2nreads' = markers2nreads
                /\ map_out' = map_out ]_vars

\* The run is over; the mapping had a marker that the database lists but
\* that is in the exclusion set, and after it a marker of the database
\* whose reads are in the reads map.
C11_Witness ==
    /\ pc = "done"
    /\ \E i, k \in 1..position :
          /\ i < k
          /\ MarkerAt(i) \in markers_to_exclude
          /\ MarkerAt(i) \notin DatabaseMarkers
          /\ MarkerAt(k) \in DatabaseMarkers
          /\ ReadsAt(k) \subseteq MapReads
          /\ ReadsAt(k) # {}

\* ------------------------------------------------------------------------
\* C19
\* ------------------------------------------------------------------------

\* The lines of the mapping file that are records of a read and a marker:
\* all of them in a bowtie2out file, the alignment lines of a SAM file.
IsRecord(i) ==
    pars.input_type = "sam" => (inp[i][1] # "@SQ" /\ inp[i][2] # "*")

Records == {i \in DOMAIN inp : IsRecord(i)}

\* The reads of the records, and the marker of the last record of a read.
ReadsOfRecords == {inp[i][1] : i \in Records}

LastRecordOf(r) ==
    CHOOSE i \in Records :
       /\ inp[i][1] = r
       /\ \A j \in Records : inp[j][1] = r => j <= i

\* The items of markers2reads whose set has read r.
ItemsWith(r) == {i \in DOMAIN markers2reads : r \in markers2reads[i][2]}

\* C19: the mapping counts each read once.  In what map2bbh returns, every
\* read of the records is in the set of exactly one marker, the marker of
\* the last record of that read; no marker has two items and no item has
\* a read that the records do not have; the sets of two markers share no
\* read; the sizes of the sets add up to the number of distinct reads; and
\* no marker has an empty set, so a marker that lost all its reads to
\* later records is not there.
C19_EachReadOnce ==
    pc \in {"mapped", "done"} =>
       /\ \A r \in ReadsOfRecords :
             /\ Cardinality(ItemsWith(r)) = 1
             /\ \A i \in ItemsWith(r) : markers2reads[i][1] = inp[LastRecordOf(r)][2]
       /\ \A i, j \in DOMAIN markers2reads :
             i # j => /\ markers2reads[i][1] # markers2reads[j][1]
                      /\ markers2reads[i][2] \cap markers2reads[j][2] = {}
       /\ \A i \in DOMAIN markers2reads :
             /\ markers2reads[i][2] # {}
             /\ markers2reads[i][2] \subseteq ReadsOfRecords
       /\ ISum(List([i \in DOMAIN markers2reads |-> Cardinality(markers2reads[i][2])]))
             = Cardinality(ReadsOfRecords)

\* map2bbh has returned for a file in which a read has a record for one
\* marker and a later record for another marker, which is the only record
\* of the first marker: the first marker is not in the result, and another
\* read is.
C19_Witness ==
    /\ pc = "mapped"
    /\ \E i, j \in Records :
          /\ i < j
          /\ inp[i][1] = inp[j][1]
          /\ inp[i][2] # inp[j][2]
          /\ \A k \in Records : inp[k][2] = inp[i][2] => k = i
          /\ inp[i][2] \notin DictKeys(markers2reads)
          /\ inp[j][2] \in DictKeys(markers2reads)
    /\ Cardinality(ReadsOfRecords) = 2

\* ------------------------------------------------------------------------
\* C12
\* ------------------------------------------------------------------------

\* The strains X and Y of the scenario, and the clades from k__A down to X.
StrainX == CladeNamed(<<"t", "X">>)
StrainY == CladeNamed(<<"t", "Y">>)
LineageOfX == {cl \in Clades : cl # StrainY}

\* The scenario: avg_g, no disambiguation, 5 reads on m1 and none on m2.
InScenario ==
    /\ pc \in {"built", "done"}
    /\ mpa_pkl = "E"
    /\ pars.stat = "avg_g"
    /\ pars.avoid_disqm
    /\ CountOn(markers2nreads, StrainX, "m1") = 5
    /\ CountOn(markers2nreads, StrainY, "m2") = 0

\* 5/1000
FiveInThousand == RNorm(5, 1000)

\* C12: the scenario end to end.  With 5 reads on m1 (on strain X) and none
\* on m2 (on strain Y), avg_g and no disambiguation, every abundance that
\* has been computed is 5/1000 for X and for each of its ancestors up to
\* k__A, and 0 for Y; a call of compute_abundance on any clade returns just
\* that; and relative_abundances(None) reports the nine clades and nothing
\* else, 1.0 for each clade from k__A down to X and 0 for Y, so that the
\* rows written are those of the eight clades from k__A down to X, each
\* with 100.0, and none for Y.
C12_Scenario ==
    InScenario =>
       /\ Clades = LineageOfX \cup {StrainY}
       /\ \A cl \in LineageOfX :
             /\ Lineage(cl) = SubSeq(Lineage(StrainX), 1, Len(Lineage(cl)))
             /\ IsComputed(abundance[cl]) => abundance[cl] = FiveInThousand
       /\ IsComputed(abundance[StrainY]) => abundance[StrainY] = RZero
       /\ ret.op = "compute_abundance" =>
             /\ IsComputed(abundance[ret.clade])
             /\ ret.val = abundance[ret.clade]
       /\ (ret.op = "rel_ab" /\ ret.tax_lev = NoTaxLev) =>
             /\ \A cl \in Clades : IsComputed(abundance[cl])
             /\ DictKeys(ret.cl2ab) = {Lineage(cl) : cl \in Clades}
             /\ \A cl \in LineageOfX : Returned(Lineage(cl)) = ROne
             /\ Returned(Lineage(StrainY)) = RZero
             /\ Range(ret.outf) = {<<Lineage(cl), 100 * Decimals>> : cl \in LineageOfX}
             /\ Len(ret.outf) = Cardinality(LineageOfX)

\* relative_abundances(None) has returned in the scenario, and the table
\* has the eight rows.
C12_Witness ==
    /\ InScenario
    /\ ret.op = "rel_ab"
    /\ ret.tax_lev = NoTaxLev
    /\ Len(ret.outf) = 8
    /\ abundance[StrainX] = FiveInThousand

\* ------------------------------------------------------------------------
\* C13
\* ------------------------------------------------------------------------

\* The key of the synthesized entry, and the keys of the other entries.
UnclassifiedKey == << <<ret.tax_lev, "unclassified">> >>
KeptKeys == DictKeys(ret.cl2ab) \ {UnclassifiedKey}

\* The sum of the kingdom-level clades' abundances.
KingdomTotal ==
    RSum(List([i \in DOMAIN SeqOfSet(Kingdoms) |-> abundance[SeqOfSet(Kingdoms)[i]]]))

\* The clades of the rank of the filter.
OfRank == {cl \in Clades : name[cl][1] = ret.tax_lev}

\* C13: normalization with a rank filter.  What relative_abundances(rank)
\* returns has one entry per key; every key is a single name of that rank;
\* every clade of that rank has an entry, whose value is the clade's
\* abundance divided by the sum of the kingdom-level abundances, or 0 when
\* that sum is 0; one entry is '<rank>unclassified', and its value is 1
\* minus the sum of the values of the other entries; and all the values
\* returned sum to 1.
C13_RankFilter ==
    (ret.op = "rel_ab" /\ ret.tax_lev # NoTaxLev) =>
       /\ \A i, j \in DOMAIN ret.cl2ab : ret.cl2ab[i][1] = ret.cl2ab[j][1] => i = j
       /\ \A k \in DictKeys(ret.cl2ab) : Len(k) = 1 /\ k[1][1] = ret.tax_lev
       /\ \A cl \in OfRank :
             /\ <<name[cl]>> \in KeptKeys
             /\ Returned(<<name[cl]>>) =
                   IF KingdomTotal = RZero THEN RZero
                   ELSE RDiv(abundance[cl], KingdomTotal)
       /\ UnclassifiedKey \in DictKeys(ret.cl2ab)
       /\ Returned(UnclassifiedKey) =
             RSub(ROne, RSum(List([i \in DOMAIN SeqOfSet(KeptKeys) |->
                                     Returned(SeqOfSet(KeptKeys)[i])])))
       /\ RSum(DictValues(ret.cl2ab)) = ROne

\* relative_abundances("s__") has returned a species with a part of the
\* total and an unclassified rest.
C13_Witness ==
    /\ ret.op = "rel_ab"
    /\ ret.tax_lev = "s"
    /\ \E k \in KeptKeys : RLt(RZero, Returned(k)) /\ RLt(Returned(k), ROne)
    /\ RLt(RZero, Returned(UnclassifiedKey))

\* ------------------------------------------------------------------------
\* C14
\* ------------------------------------------------------------------------

\* The clades whose computation has run with the disambiguation on.
Disambiguated == {cl \in Clades : locals[cl] # None /\ ~pars.avoid_disqm}

\* The removed markers that were put back into the active set of cl, and
\* those that were left out.
RestoredOf(cl) == Range(locals[cl].rat_nreads) \ Range(locals[cl].filtered)
LeftOutOf(cl)  == Range(locals[cl].removed) \ Range(locals[cl].rat_nreads)

\* C14: restoration order.  The removed markers that are put back into
\* the active set are those with the smallest read counts: no marker that
\* is put back has more reads than a removed marker that is left out.
C14_LowestCountFirst ==
    \A cl \in Disambiguated :
       \A e \in RestoredOf(cl), u \in LeftOutOf(cl) : e.n <= u.n

\* A clade whose removed markers were put back in part.
C14_Witness ==
    \E cl \in Disambiguated : RestoredOf(cl) # {} /\ LeftOutOf(cl) # {}

\* ------------------------------------------------------------------------
\* C15
\* ------------------------------------------------------------------------

\* d is cl or below it.
RECURSIVE Under(_, _)
Under(d, cl) == d = cl \/ (d # root /\ Under(father[d], cl))

\* The leaves at or below cl.
LeavesUnder(cl) == {d \in Clades : children[d] = <<>> /\ Under(d, cl)}

\* n_ripr as the claim gives it.
SafetyValve(cl) ==
    IF Cardinality(LeavesUnder(cl)) < 2 \/ Lineage(cl)[1] = <<"k", "Viruses">>
    THEN 0 ELSE 10

Smaller(a, b) == IF a < b THEN a ELSE b

\* C15: the size of the safety valve.  For a clade computed with the
\* disambiguation on from which at least one marker was removed, with a
\* the number of markers that were not removed: if a is below n_ripr (10,
\* or 0 for a clade with fewer than two leaves or under k__Viruses) the
\* active set has min(n_ripr, a + number removed) markers, otherwise it
\* has a; the markers that were not removed are all in it, and the others
\* in it are removed markers.
C15_SafetyValve ==
    \A cl \in Disambiguated :
       Len(locals[cl].removed) > 0 =>
          LET a == Len(locals[cl].filtered)
          IN  /\ Len(locals[cl].rat_nreads) =
                    IF a < SafetyValve(cl)
                    THEN Smaller(SafetyValve(cl), a + Len(locals[cl].removed))
                    ELSE a
              /\ Range(locals[cl].filtered) \subseteq Range(locals[cl].rat_nreads)
              /\ RestoredOf(cl) \subseteq Range(locals[cl].removed)
              /\ Cardinality(RestoredOf(cl)) = Len(locals[cl].rat_nreads) - a

\* A clade of two leaves with one marker kept and eleven removed, of which
\* nine were put back, and a clade of one leaf whose removed marker was
\* not put back.
C15_Witness ==
    /\ \E cl \in Disambiguated :
          /\ Len(locals[cl].filtered) = 1
          /\ Len(locals[cl].removed) = 11
          /\ Len(locals[cl].rat_nreads) = 10
    /\ \E cl \in Disambiguated :
          /\ Len(locals[cl].removed) = 1
          /\ Cardinality(LeavesUnder(cl)) < 2
          /\ Len(locals[cl].rat_nreads) = Len(locals[cl].filtered)

\* ------------------------------------------------------------------------
\* C16
\* ------------------------------------------------------------------------

\* The clades that have been computed and that the strain rule left alone.
Estimated == {cl \in Clades : locals[cl] # None /\ ~locals[cl].zeroed}

\* The total length of the active markers of cl.
ActiveLength(cl) == ISum(List([i \in DOMAIN locals[cl].rat_nreads |->
                                 locals[cl].rat_nreads[i].r]))

RMax(a, b) == IF RLt(a, b) THEN b ELSE a

\* C16: the clamp and the unclassified mass.  For every computed clade
\* that the strain rule did not zero, with sum_ab the sum of its children's
\* abundances and loc its local estimate: the abundance is sum_ab if the
\* total length of its active markers is below min_cu_len and it has
\* children, and the larger of loc and sum_ab otherwise; uncl_abundance is
\* the abundance minus sum_ab if that is positive and the clade has
\* children, and 0 otherwise; so a clade with children has abundance =
\* sum_ab + uncl_abundance with uncl_abundance >= 0.
C16_ClampAndUnclassified ==
    \A cl \in Estimated :
       LET sum_ab == ChildrenSum(cl)
           has    == children[cl] # <<>>
       IN  /\ locals[cl].sum_ab = sum_ab
           /\ abundance[cl] =
                 IF ActiveLength(cl) < pars.min_cu_len /\ has THEN sum_ab
                 ELSE RMax(locals[cl].loc_ab, sum_ab)
           /\ uncl_abundance[cl] =
                 IF RLt(sum_ab, abundance[cl]) /\ has
                 THEN RSub(abundance[cl], sum_ab)
                 ELSE RZero
           /\ has => /\ abundance[cl] = RAdd(sum_ab, uncl_abundance[cl])
                     /\ RLe(RZero, uncl_abundance[cl])

\* Three computed clades with children: one whose active markers are
\* shorter than min_cu_len and whose local estimate, though above sum_ab,
\* was discarded; one with an unclassified mass; and one without markers.
C16_Witness ==
    /\ \E cl \in Estimated :
          /\ children[cl] # <<>>
          /\ ActiveLength(cl) > 0
          /\ ActiveLength(cl) < pars.min_cu_len
          /\ RLt(ChildrenSum(cl), locals[cl].loc_ab)
          /\ abundance[cl] = ChildrenSum(cl)
    /\ \E cl \in Estimated :
          /\ children[cl] # <<>>
          /\ locals[cl].rat_nreads = <<>>

\* ------------------------------------------------------------------------
\* C17
\* ------------------------------------------------------------------------

\* The pairs of the full-tree walk, kingdom after kingdom.
Walk == AllAbundances(AbState, KingdomClades, 1)

\* The clades of the resolution gap: no children, and neither species nor
\* strain.
GapClades == {cl \in Clades : children[cl] = <<>> /\ name[cl][1] \notin {"s", "t"}}

\* The name of the next deeper rank with the suffix.
GapName(cl) == <<tax_units[TaxIndex(name[cl][1]) + 1], name[cl][2], "_unclassified">>

\* The places of the walk that hold a synthetic entry.
Synthetic == {i \in DOMAIN Walk : Len(Walk[i][1]) = 3}

\* What both readings share: subcl_uncl is set exactly for the clades of
\* the gap, and each of them has one entry of its gap name in the walk,
\* with its own abundance.
GapEntries ==
    /\ \A cl \in Clades : subcl_uncl[cl] <=> cl \in GapClades
    /\ \A cl \in GapClades :
          /\ Cardinality({i \in DOMAIN Walk : Walk[i][1] = GapName(cl)}) = 1
          /\ <<GapName(cl), abundance[cl]>> \in Range(Walk)

\* C17 as stated: after the abundances are computed, subcl_uncl is true
\* exactly for the childless clades that are neither species nor strain;
\* each of them has one entry in the walk, named with the next deeper rank
\* letter and the suffix, with the clade's own abundance; and no other
\* clade has such an entry.
C17_GapOnly ==
    ret.op = "rel_ab" =>
       /\ GapEntries
       /\ \A cl \in {c \in Clades : name[c][1] # "t"} :
             <<GapName(cl), abundance[cl]>> \in Range(Walk) => cl \in GapClades

\* C17, amended: the same for the clades of the gap; besides, a clade with
\* children whose abundance exceeds the sum of its children's has one
\* synthetic entry too, named with the rank letter of its first child and
\* the suffix, with its uncl_abundance (its whole abundance when its
\* children have none); and the walk has no other synthetic entry.
C17_GapAndUnclassified ==
    ret.op = "rel_ab" =>
       /\ GapEntries
       /\ \A i \in Synthetic :
             \E cl \in Clades :
                \/ /\ cl \in GapClades
                   /\ Walk[i] = <<GapName(cl), abundance[cl]>>
                \/ /\ children[cl] # <<>>
                   /\ RLt(RZero, uncl_abundance[cl])
                   /\ Walk[i] = << <<children[cl][1][1][1], name[cl][2], "_unclassified">>,
                                   uncl_abundance[cl] >>
       /\ \A cl \in Clades :
             (children[cl] # <<>> /\ RLt(ChildrenSum(cl), abundance[cl])) =>
                << <<children[cl][1][1][1], name[cl][2], "_unclassified">>,
                   RSub(abundance[cl], ChildrenSum(cl)) >> \in Range(Walk)

\* The walk has the entry of a childless phylum with reads, and the entry
\* of a clade with children that holds the whole abundance of that clade.
C17_Witness ==
    /\ ret.op = "rel_ab"
    /\ \E cl \in GapClades :
          /\ RLt(RZero, abundance[cl])
          /\ <<GapName(cl), abundance[cl]>> \in Range(Walk)
    /\ \E cl \in Clades :
          /\ children[cl] # <<>>
          /\ RLt(RZero, abundance[cl])
          /\ <<GapName(cl), abundance[cl]>> \in Range(Walk)

\* ------------------------------------------------------------------------
\* C18
\* ------------------------------------------------------------------------

\* The clades below a kingdom-level clade, that clade included.
BelowKingdoms == {cl \in Clades : Lineage(cl)[1][1] = "k"}

\* How many times the body of compute_abundance has run for cl, and how
\* many times it has assigned self.abundance in all.
Computations(cl) == Len(assigned[cl])
Assigned(cl) == ISum(List([i \in DOMAIN assigned[cl] |-> Len(assigned[cl][i])]))

\* The father links of the tree that was built lead to root, each from a
\* clade to one made before it, in eight steps at most.
TopDown ==
    pc \in {"built", "done", "crashed"} =>
       \A cl \in Clades :
          /\ father[cl] \in DOMAIN name
          /\ father[cl] < cl
          /\ Len(Lineage(cl)) <= Len(tax_units)

\* The run is over: the table is written, or an exception has ended it.
Over == pc \in {"done", "crashed", "failed"}

\* C18 as stated: the tree that is built is rooted at root without a
\* cycle; the run of relative_abundances ends; and once it has returned,
\* whatever the number of calls, every clade below a kingdom has an
\* abundance that is not None and that was assigned once in all.
C18_AssignedOnce ==
    /\ []TopDown
    /\ <>Over
    /\ [](pc = "done" =>
            \A cl \in BelowKingdoms :
               abundance[cl] # None /\ Assigned(cl) = 1)

\* C18, amended: the same, but what happens once per clade is the run of
\* the body of compute_abundance, which assigns self.abundance once or
\* twice (the local estimate, then the children's sum when a clamp is
\* taken); the last value assigned is the abundance, and no later call
\* changes the abundance of a clade that has one or assigns it again.
C18_ComputedOnce ==
    /\ []TopDown
    /\ <>Over
    /\ [](pc = "done" =>
            \A cl \in BelowKingdoms :
               /\ abundance[cl] # None
               /\ Computations(cl) = 1
               /\ Assigned(cl) \in {1, 2}
               /\ abundance[cl] = assigned[cl][1][Assigned(cl)])
    /\ [][ \A cl \in Clades :
              abundance[cl] # None =>
                 /\ abundance'[cl] = abundance[cl]
                 /\ assigned'[cl] = assigned[cl] ]_vars

\* relative_abundances has returned for the second time; a clade with
\* reads below its kingdom has had its abundance assigned twice, by the
\* one computation.
C18_Witness ==
    /\ pc = "done"
    /\ calls = 2
    /\ \E cl \in BelowKingdoms :
          /\ Computations(cl) = 1
          /\ Assigned(cl) = 2
          /\ RLt(RZero, abundance[cl])

====
